---- MODULE Spec2Model ----
(***************************************************************************)
(* Model of src/main.py: the reply selector simple_answer over the static  *)
(* PROFILE, the /api/chat handler and the /test database probe.            *)
(*                                                                         *)
(* A Python str is modelled as a tuple of characters.  An ASCII character  *)
(* is the one-character string holding it; a non-ASCII character is the    *)
(* string naming its code point ("U+2026" is the horizontal ellipsis).     *)
(***************************************************************************)
EXTENDS Integers, Sequences, FiniteSets, TLC

VARIABLES
    PROFILE,        \* the module-level dict PROFILE (main.py 27-100)
    prompt,         \* the argument of a simple_answer call
    reply,          \* the outcome of simple_answer(prompt)
    variant,        \* a second argument derived from prompt (re-cased, padded)
    variantReply,   \* the outcome of simple_answer on the variant
    requests,       \* the /api/chat requests in flight, by request id
    env,            \* os.environ, restricted to DATABASE_URL and DATABASE_NAME
    database,       \* what "from database import db" finds in this deployment
    pc,             \* position of the /test handler
    response        \* the response dict of the /test handler

vars == <<PROFILE, prompt, reply, variant, variantReply, requests, env, database, pc, response>>

----------------------------------------------------------------------------
(* Characters and strings *)

Chars(s) == [i \in 1..Len(s) |-> SubSeq(s, i, i)]

RSQUO == "U+2019"
ELLIPSIS == "U+2026"
BULLET == "U+2022"
EMDASH == "U+2014"
ENDASH == "U+2013"
DOTLESS_I == "U+0131"

NL == "\n"

MinOf(S) == CHOOSE x \in S : \A y \in S : x <= y
MaxOf(S) == CHOOSE x \in S : \A y \in S : x >= y

UPPERCASE == Chars("ABCDEFGHIJKLMNOPQRSTUVWXYZ")
LOWERCASE == Chars("abcdefghijklmnopqrstuvwxyz")

IndexIn(c, alphabet) == CHOOSE i \in 1..Len(alphabet) : alphabet[i] = c
IsIn(c, alphabet) == \E i \in 1..Len(alphabet) : alphabet[i] = c

\* str.lower() on one character: A-Z map to a-z; U+0131 is already lower case
lower_char(c) == IF IsIn(c, UPPERCASE) THEN LOWERCASE[IndexIn(c, UPPERCASE)] ELSE c

\* str.upper() on one character: a-z map to A-Z, and U+0131 maps to "I"
upper_char(c) ==
    IF IsIn(c, LOWERCASE) THEN UPPERCASE[IndexIn(c, LOWERCASE)]
    ELSE IF c = DOTLESS_I THEN "I"
    ELSE c

\* str.swapcase() on one character
swapcase_char(c) == IF IsIn(c, UPPERCASE) THEN lower_char(c) ELSE upper_char(c)

\* lower() that leaves the text as it is
lower_identity(s) == s

\* lower() that lowers the first character only
lower_first_only(s) == [i \in 1..Len(s) |-> IF i = 1 THEN lower_char(s[i]) ELSE s[i]]

lower(s) == [i \in 1..Len(s) |-> lower_char(s[i])]
upper(s) == [i \in 1..Len(s) |-> upper_char(s[i])]
swapcase(s) == [i \in 1..Len(s) |-> swapcase_char(s[i])]

\* the characters str.strip() removes
Whitespace == {" ", "\t", "\n", "\r", "\f"}

strip(s) ==
    LET keep == {i \in 1..Len(s) : s[i] \notin Whitespace}
    IN  IF keep = {} THEN <<>> ELSE SubSeq(s, MinOf(keep), MaxOf(keep))

\* k in q
contains(k, q) == \E i \in 0..(Len(q) - Len(k)) : SubSeq(q, i + 1, i + Len(k)) = k

\* any(k in q for k in keys)
any_in(keys, q) == \E j \in 1..Len(keys) : contains(keys[j], q)

RECURSIVE join(_, _)
\* sep.join(items)
join(sep, items) ==
    IF Len(items) = 0 THEN <<>>
    ELSE IF Len(items) = 1 THEN items[1]
    ELSE items[1] \o sep \o join(sep, Tail(items))

\* items[:n - 1]
slice_one_short(items, n) == SubSeq(items, 1, IF Len(items) < n - 1 THEN Len(items) ELSE n - 1)

\* items[:n]
slice(items, n) == SubSeq(items, 1, IF Len(items) < n THEN Len(items) ELSE n)

----------------------------------------------------------------------------
(* PROFILE, main.py 27-100 *)

Project1 ==
    [name |-> Chars("UniToolBox"),
     period |-> Chars("2024/2") \o <<ENDASH>> \o Chars("2024/10"),
     highlights |-> <<Chars("Full-stack toolkit with 30+ free tools"),
                      Chars("Next.js + React + TypeScript + Tailwind"),
                      Chars("AI features (summarizer, translator)"),
                      Chars("SSR for SEO"),
                      Chars("Deployed on Vercel"),
                      Chars("Privacy & accessibility focused"),
                      Chars("Ad-supported monetization")>>]

Project2 ==
    [name |-> Chars("Anonymous Messenger"),
     period |-> Chars("2022/9") \o <<ENDASH>> \o Chars("2023/6"),
     highlights |-> <<Chars("Android chat app"),
                      Chars("Java + XML"),
                      Chars("Firebase Realtime DB"),
                      Chars("Live messaging"),
                      Chars("Clean responsive UI")>>]

Project3 ==
    [name |-> Chars("Hustle Finder"),
     period |-> Chars("2023/5") \o <<ENDASH>> \o Chars("2023/11"),
     highlights |-> <<Chars("600+ side hustles"),
                      Chars("Search + pagination"),
                      Chars("Next.js, React, TailwindCSS"),
                      Chars("Adsterra integration"),
                      Chars("Bookmarks + theme system")>>]

Project4 ==
    [name |-> Chars("Matty AI"),
     period |-> Chars("2024/5") \o <<ENDASH>> \o Chars("2024/8"),
     highlights |-> <<Chars("Chat-based AI companion"),
                      Chars("Node.js + Express backend"),
                      Chars("No login"),
                      Chars("Voice input, file share, emoji support"),
                      Chars("Anonymous, private experience")>>]

Skills ==
    [frontend |-> <<Chars("React"), Chars("Next.js"), Chars("TailwindCSS"), Chars("TypeScript"),
                    Chars("JavaScript"), Chars("HTML5"), Chars("CSS3"), Chars("Styled Components"),
                    Chars("Sass"), Chars("Less"), Chars("CSS Modules")>>,
     backend |-> <<Chars("Node.js"), Chars("Express.js"), Chars("REST APIs"), Chars("SSR"),
                   Chars("Full Stack Architecture")>>,
     ai |-> <<Chars("ChatGPT"), Chars("Claude"), Chars("Deepseek"), Chars("Gemini"), Chars("Kimi"),
              Chars("Workik"), Chars("Cody"), Chars("Firebase Studio AI"), Chars("Cursor IDE"),
              Chars("Windsurf IDE"), Chars("Trae IDE"), Chars("Void IDE"), Chars("Google AI Studio"),
              Chars("Google Labs"), Chars("Stitch"), Chars("Lovable"), Chars("Builder.io"),
              Chars("OpenRouter"), Chars("Vercel-V0")>>,
     database |-> <<Chars("MongoDB"), Chars("Firebase"), Chars("Firestore"), Chars("LocalStorage")>>,
     others |-> <<Chars("Git"), Chars("GitHub"), Chars("Vercel"), Chars("Netlify"), Chars("Postman"),
                  Chars("Figma"), Chars("VS Code"), Chars("IntelliJ"), Chars("PWA"),
                  Chars("Android Studio"), Chars("Unity"), Chars("Unreal Engine")>>]

About ==
    <<Chars("50+ global client projects"),
      Chars("Web, mobile, and game development"),
      Chars("Expertise in React, Next.js, Node.js, MongoDB, and AI tools"),
      Chars("Strong UI/UX understanding"),
      Chars("Experience building portfolio sites, resume builders, and full-stack apps"),
      Chars("Built AI assistants, chat apps, and custom tools"),
      Chars("Fast learner with deep technical research skills"),
      Chars("Active collaborator on GitHub")>>

ProfileInit ==
    [name |-> Chars("Meezab Momin"),
     title |-> Chars("Full Stack & Application Developer"),
     tag |-> Chars("Building immersive web experiences, powerful AI tools, and modern applications"),
     skills |-> Skills,
     projects |-> <<Project1, Project2, Project3, Project4>>,
     about |-> About]

----------------------------------------------------------------------------
(* simple_answer, main.py 103-132 *)

Return(v) == [kind |-> "return", value |-> v]
Raise(e) == [kind |-> "raise", value |-> Chars(e)]
Pending == [kind |-> "pending", value |-> <<>>]

GreetingKeys == <<Chars("hello"), Chars("hi"), Chars("hey")>>
SkillsKeys == <<Chars("skill"), Chars("stack"), Chars("tech")>>
ProjectsKeys == <<Chars("project"), Chars("portfolio"), Chars("work")>>
ContactKeys == <<Chars("contact"), Chars("email"), Chars("reach")>>

\* the number of ai and others entries the skills reply shows
SkillsShown == 8

greeting_reply(profile) ==
    Chars("Hey! I'm ") \o profile.name \o Chars(", a ") \o profile.title
    \o Chars(". I build immersive web experiences, AI tools, and modern applications. How can I help?")

\* the skills reply with the ellipsis only after a list that was cut
skills_reply_marker_when_cut(profile) ==
    Chars("Here") \o <<RSQUO>> \o Chars("s my core stack:") \o <<NL>>
    \o Chars("- Frontend: ") \o join(Chars(", "), profile.skills.frontend) \o <<NL>>
    \o Chars("- Backend: ") \o join(Chars(", "), profile.skills.backend) \o <<NL>>
    \o Chars("- Databases: ") \o join(Chars(", "), profile.skills.database) \o <<NL>>
    \o Chars("- AI & IDEs: ") \o join(Chars(", "), slice(profile.skills.ai, SkillsShown))
    \o (IF Len(profile.skills.ai) > SkillsShown THEN <<ELLIPSIS>> ELSE <<>>) \o <<NL>>
    \o Chars("- Others: ") \o join(Chars(", "), slice(profile.skills.others, SkillsShown))
    \o (IF Len(profile.skills.others) > SkillsShown THEN <<ELLIPSIS>> ELSE <<>>)

skills_reply(profile) ==
    Chars("Here") \o <<RSQUO>> \o Chars("s my core stack:") \o <<NL>>
    \o Chars("- Frontend: ") \o join(Chars(", "), profile.skills.frontend) \o <<NL>>
    \o Chars("- Backend: ") \o join(Chars(", "), profile.skills.backend) \o <<NL>>
    \o Chars("- Databases: ") \o join(Chars(", "), profile.skills.database) \o <<NL>>
    \o Chars("- AI & IDEs: ") \o join(Chars(", "), slice(profile.skills.ai, SkillsShown))
    \o <<ELLIPSIS>> \o <<NL>>
    \o Chars("- Others: ") \o join(Chars(", "), slice(profile.skills.others, SkillsShown))
    \o <<ELLIPSIS>>

\* the line with the last highlight in place of the first
project_line_last_highlight(p) ==
    <<BULLET>> \o Chars(" ") \o p.name \o Chars(" (") \o p.period \o Chars("): ")
    \o p.highlights[Len(p.highlights)]

\* one appended line of the for loop, main.py 122
project_line(p) ==
    <<BULLET>> \o Chars(" ") \o p.name \o Chars(" (") \o p.period \o Chars("): ") \o p.highlights[1]

projects_reply(profile) ==
    LET lines == [i \in 1..Len(profile.projects) |-> project_line(profile.projects[i])]
    IN  Chars("Some highlights:") \o <<NL>> \o join(<<NL>>, lines)

contact_reply ==
    Chars("You can reach me at mmm045762s@gmail.com or +91 8983135250 (Maharashtra, IN).")

\* the default reply with the tag line in place of the title
default_reply_tag(profile) ==
    Chars("I'm ") \o profile.name \o Chars(" ") \o <<EMDASH>> \o Chars(" ") \o profile.tag
    \o Chars(". ")
    \o Chars("I") \o <<RSQUO>> \o Chars("ve delivered 50+ projects across web, mobile, and games. ")
    \o Chars("Ask me about my stack, projects, or availability.")

default_reply(profile) ==
    Chars("I'm ") \o profile.name \o Chars(" ") \o <<EMDASH>> \o Chars(" ") \o profile.title
    \o Chars(". ")
    \o Chars("I") \o <<RSQUO>> \o Chars("ve delivered 50+ projects across web, mobile, and games. ")
    \o Chars("Ask me about my stack, projects, or availability.")

\* the branches with the projects check moved before the greeting check
answer_projects_first(profile, text) ==
    LET q == strip(lower(text))
    IN  IF contains(ProjectsKeys[1], q) \/ contains(ProjectsKeys[2], q)
           \/ contains(ProjectsKeys[3], q)
            THEN Return(projects_reply(profile))
        ELSE IF any_in(GreetingKeys, q) THEN Return(greeting_reply(profile))
        ELSE IF contains(SkillsKeys[1], q) \/ contains(SkillsKeys[2], q) \/ contains(SkillsKeys[3], q)
            THEN Return(skills_reply(profile))
        ELSE IF contains(ContactKeys[1], q) \/ contains(ContactKeys[2], q)
                \/ contains(ContactKeys[3], q)
            THEN Return(contact_reply)
        ELSE Return(default_reply(profile))

\* simple_answer with the global it reads made a parameter
answer(profile, text) ==
    LET q == strip(lower(text))
    IN  IF any_in(GreetingKeys, q) THEN Return(greeting_reply(profile))
        ELSE IF contains(SkillsKeys[1], q) \/ contains(SkillsKeys[2], q) \/ contains(SkillsKeys[3], q)
            THEN Return(skills_reply(profile))
        ELSE IF contains(ProjectsKeys[1], q) \/ contains(ProjectsKeys[2], q)
                \/ contains(ProjectsKeys[3], q)
            THEN IF \E i \in 1..Len(profile.projects) : Len(profile.projects[i].highlights) = 0
                 THEN Raise("IndexError")
                 ELSE Return(projects_reply(profile))
        ELSE IF contains(ContactKeys[1], q) \/ contains(ContactKeys[2], q)
                \/ contains(ContactKeys[3], q)
            THEN Return(contact_reply)
        ELSE Return(default_reply(profile))

simple_answer(text) == answer(PROFILE, text)

----------------------------------------------------------------------------
(* Calls of simple_answer on drawn arguments *)

\* the number of fragments an argument is put together from
MaxFrags == 2

\* pieces of text the arguments are concatenated from: every keyword, in
\* several letter cases, white space, and pieces that form "hi" only when
\* put next to each other or only after str.upper()
Fragments ==
    {Chars("Hello"), Chars("hi"), Chars("HEY"),
     Chars("skill"), Chars("Stack"), Chars("What's your tech stack?"),
     Chars("Tell me about your projects"), Chars("Portfolio"), Chars("WORK"),
     Chars("how can I contact you"), Chars("eMail"), Chars("reach"),
     Chars(" "), Chars("\t"), Chars("th"), Chars("Is"), <<DOTLESS_I>>, Chars("asdkjasd")}

RECURSIVE InputsOf(_)
InputsOf(n) ==
    IF n = 0 THEN {<<>>}
    ELSE LET shorter == InputsOf(n - 1)
         IN  shorter \cup {s \o f : s \in shorter, f \in Fragments}

Inputs == InputsOf(MaxFrags)

\* the conversions of letter case Python offers on a str
recase(op, s) ==
    CASE op = "upper" -> upper(s)
      [] op = "lower" -> lower(s)
      [] op = "swapcase" -> swapcase(s)
      [] OTHER -> s

RecaseOps == {"keep", "upper", "lower", "swapcase"}

\* white space put before and after an argument
Padding == {<<<<>>, <<>>>>, <<Chars(" "), <<>>>>, <<Chars("\t "), Chars(" \n")>>}

NoVariant == [pre |-> <<>>, body |-> <<>>, post |-> <<>>]

server_vars == <<requests, env, database, pc, response>>

----------------------------------------------------------------------------
(* POST /api/chat, main.py 18-24 and 145-148 *)

\* the number of /api/chat requests in flight at once
MaxRequests == 3

RequestIds == 1..MaxRequests

NoRequest ==
    [state |-> "none", message |-> <<>>, history |-> [given |-> FALSE, items |-> <<>>],
     reply |-> <<>>]

\* ChatRequest.message
Messages == {Chars("hi"), Chars("Tell me about your projects")}

\* ChatRequest.history: absent (None), an empty list, a list of one dict
Histories ==
    {[given |-> FALSE, items |-> <<>>],
     [given |-> TRUE, items |-> <<>>],
     [given |-> TRUE, items |-> <<[role |-> "user", content |-> Chars("my skills ")]>>]}

\* a request body is parsed into a ChatRequest
Post(r) ==
    /\ requests[r].state = "none"
    /\ \E m \in Messages, h \in Histories :
          requests' = [requests EXCEPT ![r] =
                          [state |-> "received", message |-> m, history |-> h, reply |-> <<>>]]
    /\ UNCHANGED <<PROFILE, prompt, reply, variant, variantReply, env, database, pc, response>>

\* the handler with a PROFILE it writes to: each answer drops a project
chat_mutating(r) ==
    /\ requests[r].state = "received"
    /\ LET out == simple_answer(requests[r].message)
       IN  requests' = [requests EXCEPT ![r].state = "done", ![r].reply = out.value]
    /\ PROFILE' = [PROFILE EXCEPT !.projects = SubSeq(@, 1, Len(@) - 1)]
    /\ UNCHANGED <<prompt, reply, variant, variantReply, env, database, pc, response>>

\* the handler with the history read: the last record's content is put
\* before the message
chat_reading_history(r) ==
    /\ requests[r].state = "received"
    /\ LET h == requests[r].history.items
           text == IF Len(h) = 0 THEN requests[r].message
                   ELSE h[Len(h)].content \o requests[r].message
           out == simple_answer(text)
       IN  requests' = [requests EXCEPT ![r].state = "done", ![r].reply = out.value]
    /\ UNCHANGED <<PROFILE, prompt, reply, variant, variantReply, env, database, pc, response>>

\* async def chat(req): no await in its body, so it runs to its end once
\* started; an exception of simple_answer would end the request as failed
chat(r) ==
    /\ requests[r].state = "received"
    /\ LET out == simple_answer(requests[r].message)
       IN  requests' = [requests EXCEPT
                           ![r].state = IF out.kind = "return" THEN "done" ELSE "failed",
                           ![r].reply = out.value]
    /\ UNCHANGED <<PROFILE, prompt, reply, variant, variantReply, env, database, pc, response>>

----------------------------------------------------------------------------
(* GET /test, main.py 151-193 *)

\* the largest number of collections the database holds
MaxCollections == 11

\* collections[:10]
CollectionsShown == 10

\* str(e)[:50]
ErrorShown == 50

NONE == "None"

\* os.environ: a variable is unset, set to the empty string, or set to a value
EnvValues ==
    {[set |-> FALSE, value |-> ""], [set |-> TRUE, value |-> ""],
     [set |-> TRUE, value |-> "mongodb://localhost:27017"]}

Environments == [DATABASE_URL : EnvValues, DATABASE_NAME : EnvValues]

\* os.getenv(name): None when unset, else the value
getenv(name) == IF env[name].set THEN env[name].value ELSE NONE

\* the truth value of what os.getenv returned
truthy(v) == v # NONE /\ v # ""

RECURSIVE Message(_)
\* an exception message of n characters
Message(n) == IF n = 0 THEN "" ELSE Message(n - 1) \o "e"

MessageLengths == {0, ErrorShown - 1, ErrorShown, ErrorShown + 1}

\* what the deployment holds for "from database import db": no module, a
\* module without db, a module that raises while imported, db = None, or a
\* db object with or without a name whose list_collection_names() returns
\* or raises
Deployments ==
    {[import |-> t, error |-> Message(1), db |-> "none", has_name |-> FALSE,
      listing |-> "none", collections |-> 0] : t \in {"ModuleNotFoundError", "ImportError"}}
    \cup
    {[import |-> "RuntimeError", error |-> Message(n), db |-> "none", has_name |-> FALSE,
      listing |-> "none", collections |-> 0] : n \in MessageLengths}
    \cup
    {[import |-> "ok", error |-> "", db |-> "None", has_name |-> FALSE,
      listing |-> "none", collections |-> 0]}
    \cup
    {[import |-> "ok", error |-> "", db |-> "object", has_name |-> h,
      listing |-> "ok", collections |-> n] : h \in BOOLEAN, n \in 0..MaxCollections}
    \cup
    {[import |-> "ok", error |-> Message(n), db |-> "object", has_name |-> h,
      listing |-> "ServerSelectionTimeoutError", collections |-> 0] :
        h \in BOOLEAN, n \in MessageLengths}

DbName == "portfolio"

\* the exception classes: issubclass(t, c)
issubclass(t, c) ==
    \/ t = c
    \/ c = "ImportError" /\ t = "ModuleNotFoundError"
    \/ c = "Exception"
       /\ t \in {"ImportError", "ModuleNotFoundError", "RuntimeError", "ServerSelectionTimeoutError"}

\* line 154-161
NewResponse ==
    [backend |-> "U+2705 Running",
     database |-> "U+274C Not Available",
     database_url |-> NONE,
     database_name |-> NONE,
     connection_status |-> "Not Connected",
     collections |-> <<>>]

Unstarted == [NewResponse EXCEPT !.backend = NONE, !.database = NONE, !.connection_status = NONE]

cut(text, n) == SubSeq(text, 1, IF Len(text) < n THEN Len(text) ELSE n)

\* the inner try, lines 174-179
list_collections(d, resp) ==
    IF d.listing = "ok"
    THEN [resp EXCEPT !.collections = slice([i \in 1..d.collections |-> i], CollectionsShown),
                      !.database = "U+2705 Connected & Working"]
    ELSE IF issubclass(d.listing, "Exception")
    THEN [resp EXCEPT !.database = "U+26A0 U+FE0F  Connected but Error: " \o cut(d.error, ErrorShown)]
    ELSE resp

\* the body of the outer try, lines 165-181: the exception it ends with
\* ("none" when it ends normally) and the response dict as it leaves it
try_body(d, resp) ==
    IF d.import # "ok" THEN [exc |-> d.import, resp |-> resp]
    ELSE IF d.db # "None"
    THEN [exc |-> "none",
          resp |-> list_collections(d,
                      [resp EXCEPT !.database = "U+2705 Available",
                                   !.database_url = "U+2705 Configured",
                                   !.database_name = IF d.has_name THEN DbName ELSE "U+2705 Connected",
                                   !.connection_status = "Connected"])]
    ELSE [exc |-> "none", resp |-> [resp EXCEPT !.database = "U+26A0 U+FE0F  Available but not initialized"]]

\* lines 154-186: the try statement with its two handlers
probe(d) ==
    LET out == try_body(d, NewResponse)
    IN  IF out.exc = "none" THEN [pc |-> "probed", resp |-> out.resp]
        ELSE IF issubclass(out.exc, "ImportError")
        THEN [pc |-> "probed",
              resp |-> [out.resp EXCEPT !.database =
                           "U+274C Database module not found (run enable-database first)"]]
        ELSE IF issubclass(out.exc, "Exception")
        THEN [pc |-> "probed",
              resp |-> [out.resp EXCEPT !.database = "U+274C Error: " \o cut(d.error, ErrorShown)]]
        ELSE [pc |-> "raised", resp |-> out.resp]

\* lines 190-191 writing only the fields the probe left unset
check_environment_keep(resp) ==
    [resp EXCEPT
        !.database_url = IF @ # NONE THEN @
                         ELSE IF truthy(getenv("DATABASE_URL")) THEN "U+2705 Set" ELSE "U+274C Not Set",
        !.database_name = IF @ # NONE THEN @
                          ELSE IF truthy(getenv("DATABASE_NAME")) THEN "U+2705 Set" ELSE "U+274C Not Set"]

\* lines 188-191
check_environment(resp) ==
    [resp EXCEPT
        !.database_url = IF truthy(getenv("DATABASE_URL")) THEN "U+2705 Set" ELSE "U+274C Not Set",
        !.database_name = IF truthy(getenv("DATABASE_NAME")) THEN "U+2705 Set" ELSE "U+274C Not Set"]

\* GET /test arrives: the handler builds its dict and runs the probe
TestProbe ==
    /\ pc = "start"
    /\ pc' = probe(database).pc
    /\ response' = probe(database).resp
    /\ UNCHANGED <<PROFILE, prompt, reply, variant, variantReply, requests, env, database>>

\* the handler reads the environment and returns the dict
TestReturn ==
    /\ pc = "probed"
    /\ response' = check_environment(response)
    /\ pc' = "returned"
    /\ UNCHANGED <<PROFILE, prompt, reply, variant, variantReply, requests, env, database>>

NoEnv == [DATABASE_URL |-> [set |-> FALSE, value |-> ""], DATABASE_NAME |-> [set |-> FALSE, value |-> ""]]
NoDatabase ==
    [import |-> "ModuleNotFoundError", error |-> Message(1), db |-> "none", has_name |-> FALSE,
     listing |-> "none", collections |-> 0]

ServerIdle ==
    /\ requests = [r \in RequestIds |-> NoRequest]
    /\ env = NoEnv
    /\ database = NoDatabase
    /\ pc = "idle"
    /\ response = Unstarted

NoCalls ==
    /\ prompt = <<>>
    /\ reply = Pending
    /\ variant = NoVariant
    /\ variantReply = Pending

----------------------------------------------------------------------------
(* The specifications *)

Init ==
    /\ PROFILE = ProfileInit
    /\ prompt \in Inputs
    /\ reply = Pending
    /\ variant = NoVariant
    /\ variantReply = Pending
    /\ ServerIdle

\* reply = simple_answer(prompt)
Ask ==
    /\ reply = Pending
    /\ reply' = simple_answer(prompt)
    /\ UNCHANGED <<PROFILE, prompt, variant, variantReply, server_vars>>

\* a second call, on prompt re-cased and padded with white space
AskVariant ==
    /\ reply # Pending
    /\ variantReply = Pending
    /\ \E op \in RecaseOps, pad \in Padding :
          /\ variant' = [pre |-> pad[1], body |-> recase(op, prompt), post |-> pad[2]]
          /\ variantReply' = simple_answer(pad[1] \o recase(op, prompt) \o pad[2])
    /\ UNCHANGED <<PROFILE, prompt, reply, server_vars>>

\* one call of simple_answer on each drawn argument
Next == Ask

Spec == Init /\ [][Next]_vars

\* pairs of calls: the argument, then a re-cased and padded variant of it
CaseNext == Ask \/ AskVariant

CaseSpec == Init /\ [][CaseNext]_vars

\* PROFILE with the ai and others lists cut to every length they can have
ProfileVariants ==
    {[ProfileInit EXCEPT !.skills.ai = SubSeq(@, 1, n), !.skills.others = SubSeq(@, 1, m)] :
        n \in 0..Len(Skills.ai), m \in 0..Len(Skills.others)}

ProfileInputs == {Chars("What's your tech stack?"), Chars("SKILLS"), Chars("hi")}

ProfileInitial ==
    /\ PROFILE \in ProfileVariants
    /\ prompt \in ProfileInputs
    /\ reply = Pending
    /\ variant = NoVariant
    /\ variantReply = Pending
    /\ ServerIdle

ProfileSpec == ProfileInitial /\ [][Next]_vars

\* concurrent /api/chat requests
ChatInit ==
    /\ PROFILE = ProfileInit
    /\ NoCalls
    /\ requests = [r \in RequestIds |-> NoRequest]
    /\ env = NoEnv
    /\ database = NoDatabase
    /\ pc = "idle"
    /\ response = Unstarted

ChatNext == \E r \in RequestIds : Post(r) \/ chat(r)

ChatSpec == ChatInit /\ [][ChatNext]_vars

\* GET /test in every deployment and environment
ProbeInit ==
    /\ PROFILE = ProfileInit
    /\ NoCalls
    /\ requests = [r \in RequestIds |-> NoRequest]
    /\ env \in Environments
    /\ database \in Deployments
    /\ pc = "start"
    /\ response = Unstarted

ProbeNext == TestProbe \/ TestReturn

ProbeSpec == ProbeInit /\ [][ProbeNext]_vars

----------------------------------------------------------------------------
(* What the claims speak of, stated without the operators of the model *)

HasPrefix(p, s) == Len(p) <= Len(s) /\ \A i \in 1..Len(p) : s[i] = p[i]

\* k occurs in s as a run of consecutive characters
Occurs(k, s) ==
    \E i \in 1..(Len(s) - Len(k) + 1) : \A j \in 1..Len(k) : s[i + j - 1] = k[j]

\* c is the lower-case ASCII letter k or its capital, or the same non-letter
SameLetter(c, k) ==
    \/ c = k
    \/ \E n \in 1..Len(LOWERCASE) : k = LOWERCASE[n] /\ c = UPPERCASE[n]

\* the lower-case keyword k occurs in s in some ASCII letter case
OccursAnyCase(k, s) ==
    \E i \in 1..(Len(s) - Len(k) + 1) : \A j \in 1..Len(k) : SameLetter(s[i + j - 1], k[j])

\* the categories in the order of the specification: greeting, skills,
\* projects, contact (5 is the default)
CategoryKeywords ==
    <<{Chars("hello"), Chars("hi"), Chars("hey")},
      {Chars("skill"), Chars("stack"), Chars("tech")},
      {Chars("project"), Chars("portfolio"), Chars("work")},
      {Chars("contact"), Chars("email"), Chars("reach")}>>

Matching(text) ==
    {c \in 1..Len(CategoryKeywords) : \E k \in CategoryKeywords[c] : OccursAnyCase(k, text)}

Selected(text) ==
    IF Matching(text) = {} THEN Len(CategoryKeywords) + 1 ELSE MinOf(Matching(text))

\* how the reply of each category begins
CategoryOpening ==
    <<Chars("Hey! I'm "), Chars("Here"), Chars("Some highlights:"),
      Chars("You can reach me at "), Chars("I'm ")>>

FixedContact ==
    Chars("You can reach me at mmm045762s@gmail.com or +91 8983135250 (Maharashtra, IN).")

RECURSIVE SplitBy(_, _)
\* s.split(sep)
SplitBy(sep, s) ==
    LET at == {i \in 1..(Len(s) - Len(sep) + 1) : SubSeq(s, i, i + Len(sep) - 1) = sep}
    IN  IF at = {} THEN <<s>>
        ELSE LET i == MinOf(at)
             IN  <<SubSeq(s, 1, i - 1)>> \o SplitBy(sep, SubSeq(s, i + Len(sep), Len(s)))

Lines(s) == SplitBy(<<NL>>, s)

Returned(r) == r.kind = "return"

\* C1: the reply is that of the first category, in the order greeting,
\* skills, projects, contact, default, one of whose keywords occurs in the
\* input in any letter case, whatever keywords of later categories occur too;
\* a contact reply is exactly the fixed contact string.
C1_FirstMatchWins ==
    reply # Pending =>
        /\ Returned(reply)
        /\ HasPrefix(CategoryOpening[Selected(prompt)], reply.value)
        /\ Selected(prompt) = 4 => reply.value = FixedContact

\* an input with "hi" and "project" both in it was answered with the greeting
C1_Witness ==
    /\ Returned(reply)
    /\ OccursAnyCase(Chars("hi"), prompt)
    /\ OccursAnyCase(Chars("project"), prompt)
    /\ HasPrefix(CategoryOpening[1], reply.value)

\* C2: every input with "hi" in it, in any letter case and anywhere in the
\* text, is answered with a reply that starts with the greeting prefix and
\* holds PROFILE's name and title.
C2_HiGreets ==
    (reply # Pending /\ OccursAnyCase(Chars("hi"), prompt)) =>
        /\ Returned(reply)
        /\ HasPrefix(Chars("Hey! I'm "), reply.value)
        /\ Occurs(PROFILE.name, reply.value)
        /\ Occurs(PROFILE.title, reply.value)

\* "hI" inside the longer word "thIs", answered with the greeting
C2_Witness ==
    /\ Returned(reply)
    /\ prompt = Chars("thIs")
    /\ HasPrefix(Chars("Hey! I'm "), reply.value)

ProjectLineOk(line, p) ==
    /\ Occurs(p.name, line)
    /\ Occurs(p.period, line)
    /\ Occurs(p.highlights[1], line)
    /\ \A j \in 2..Len(p.highlights) : ~Occurs(p.highlights[j], line)

\* C3 as stated: a projects reply has exactly as many lines as PROFILE has
\* projects, line i being that of project i.
C3_AsStated ==
    (Returned(reply) /\ Selected(prompt) = 3) =>
        /\ Len(Lines(reply.value)) = Len(PROFILE.projects)
        /\ \A i \in 1..Len(PROFILE.projects) :
              i <= Len(Lines(reply.value)) /\ ProjectLineOk(Lines(reply.value)[i], PROFILE.projects[i])

\* C3 amended: a projects reply is the header line "Some highlights:"
\* followed by exactly one line per project of PROFILE, in PROFILE's order,
\* each holding the project's name, period and first highlight and none of
\* its later highlights.
C3_HeaderThenProjects ==
    (Returned(reply) /\ Selected(prompt) = 3) =>
        /\ Len(Lines(reply.value)) = 1 + Len(PROFILE.projects)
        /\ Lines(reply.value)[1] = Chars("Some highlights:")
        /\ \A i \in 1..Len(PROFILE.projects) :
              ProjectLineOk(Lines(reply.value)[i + 1], PROFILE.projects[i])

C3_Witness ==
    /\ Returned(reply)
    /\ Selected(prompt) = 3
    /\ OccursAnyCase(Chars("project"), prompt)
    /\ Len(Lines(reply.value)) = 5

\* the entries listed on a line "<label><entry>, <entry>, ...<tail>"
Listed(line, label, tail) ==
    SplitBy(Chars(", "), SubSeq(line, Len(label) + 1, Len(line) - Len(tail)))

LineIs(line, label, entries, tail) ==
    /\ HasPrefix(label, line)
    /\ Len(line) >= Len(label) + Len(tail)
    /\ SubSeq(line, Len(line) - Len(tail) + 1, Len(line)) = tail
    /\ IF Len(entries) = 0
       THEN Len(line) = Len(label) + Len(tail)
       ELSE Listed(line, label, tail) = entries

FirstEntries(entries, n) == [i \in 1..(IF Len(entries) < n THEN Len(entries) ELSE n) |-> entries[i]]

\* C4: a skills reply lists every frontend, backend and database entry in
\* stored order, and of ai and of others exactly the first 8 entries, each
\* of the two followed by the ellipsis; no later ai or others entry appears.
C4_SkillsListing ==
    (Returned(reply) /\ Selected(prompt) = 2) =>
        LET ls == Lines(reply.value)
        IN  /\ Len(ls) = 6
            /\ LineIs(ls[2], Chars("- Frontend: "), PROFILE.skills.frontend, <<>>)
            /\ LineIs(ls[3], Chars("- Backend: "), PROFILE.skills.backend, <<>>)
            /\ LineIs(ls[4], Chars("- Databases: "), PROFILE.skills.database, <<>>)
            /\ LineIs(ls[5], Chars("- AI & IDEs: "), [i \in 1..8 |-> PROFILE.skills.ai[i]], <<ELLIPSIS>>)
            /\ LineIs(ls[6], Chars("- Others: "), [i \in 1..8 |-> PROFILE.skills.others[i]], <<ELLIPSIS>>)
            /\ \A i \in 9..Len(PROFILE.skills.ai) : ~Occurs(PROFILE.skills.ai[i], reply.value)
            /\ \A i \in 9..Len(PROFILE.skills.others) : ~Occurs(PROFILE.skills.others[i], reply.value)

C4_Witness ==
    /\ Returned(reply)
    /\ Selected(prompt) = 2
    /\ OccursAnyCase(Chars("tech"), prompt)
    /\ OccursAnyCase(Chars("stack"), prompt)
    /\ Occurs(Chars("Firebase Studio AI") \o <<ELLIPSIS>>, reply.value)

DefaultExpected ==
    Chars("I'm ") \o PROFILE.name \o <<" ", EMDASH, " ">> \o PROFILE.title
    \o Chars(". I") \o <<RSQUO>>
    \o Chars("ve delivered 50+ projects across web, mobile, and games. ")
    \o Chars("Ask me about my stack, projects, or availability.")

\* C6: every call returns a string and none fails; an input with none of the
\* twelve keywords in it, the empty and the all-white-space input among them,
\* gets exactly the default string with PROFILE's name and title.
C6_TotalWithDefault ==
    reply # Pending =>
        /\ Returned(reply)
        /\ Selected(prompt) = 5 => reply.value = DefaultExpected

\* an input of white space only was answered with the default string
C6_Witness ==
    /\ Returned(reply)
    /\ prompt # <<>>
    /\ \A i \in 1..Len(prompt) : prompt[i] \in Whitespace
    /\ reply.value = DefaultExpected

\* t is s with some of its ASCII letters changed to their other case
AsciiRecasing(s, t) ==
    /\ Len(s) = Len(t)
    /\ \A i \in 1..Len(s) :
          \/ s[i] = t[i]
          \/ \E n \in 1..Len(LOWERCASE) :
                {s[i], t[i]} = {LOWERCASE[n], UPPERCASE[n]}

AllWhitespace(s) == \A i \in 1..Len(s) : s[i] \in Whitespace

\* C8 as stated: the reply for any re-casing of the input, with any white
\* space before or after it, equals the reply for the input.
C8_AsStated ==
    variantReply # Pending => variantReply = reply

\* C8 amended: the reply for the input with any of its ASCII letters
\* re-cased (every other character left as it is) and any white space added
\* before or after equals the reply for the input.
C8_AsciiCaseAndPadding ==
    (/\ variantReply # Pending
     /\ AsciiRecasing(prompt, variant.body)
     /\ AllWhitespace(variant.pre)
     /\ AllWhitespace(variant.post)) => variantReply = reply

\* a keyword input, re-cased and padded on both sides, got the same reply
C8_Witness ==
    /\ Returned(variantReply)
    /\ AsciiRecasing(prompt, variant.body)
    /\ variant.body # prompt
    /\ variant.pre # <<>>
    /\ variant.post # <<>>
    /\ Selected(prompt) = 1
    /\ variantReply = reply

\* C5: whatever the lengths of PROFILE's ai and others lists, 0 and every
\* length up to 8 included, the skills reply shows the first min(8, length)
\* entries of each in stored order and the ellipsis after them, also when
\* nothing was cut.
C5_TruncationMarkerAlways ==
    (Returned(reply) /\ Selected(prompt) = 2) =>
        LET ls == Lines(reply.value)
        IN  /\ Len(ls) = 6
            /\ LineIs(ls[5], Chars("- AI & IDEs: "), FirstEntries(PROFILE.skills.ai, 8), <<ELLIPSIS>>)
            /\ LineIs(ls[6], Chars("- Others: "), FirstEntries(PROFILE.skills.others, 8), <<ELLIPSIS>>)

\* a skills reply over an empty ai list and an others list of 8 entries
C5_Witness ==
    /\ Returned(reply)
    /\ Selected(prompt) = 2
    /\ Len(PROFILE.skills.ai) = 0
    /\ Len(PROFILE.skills.others) = 8
    /\ Occurs(Chars("- AI & IDEs: ") \o <<ELLIPSIS, NL>>, reply.value)
    /\ Occurs(Chars("IntelliJ") \o <<ELLIPSIS>>, reply.value)

Done(r) == requests[r].state = "done"

\* C7: under every interleaving of /api/chat requests PROFILE keeps its
\* initial value, no request fails, and the reply of every answered request
\* is the reply for its message alone over the initial PROFILE, whichever
\* requests were answered before it.
C7_RepliesIndependent ==
    /\ PROFILE = ProfileInit
    /\ \A r \in RequestIds :
          /\ requests[r].state # "failed"
          /\ Done(r) => Return(requests[r].reply) = answer(ProfileInit, requests[r].message)

\* two requests with the same message answered, one with another message too
C7_Witness ==
    \E a, b, c \in RequestIds :
        /\ Done(a) /\ Done(b) /\ Done(c)
        /\ a # b
        /\ requests[a].message = requests[b].message
        /\ requests[c].message # requests[a].message
        /\ requests[a].reply = requests[b].reply
        /\ requests[c].reply # requests[a].reply

\* C9: two answered requests with the same message have the same reply,
\* whatever their history values are.
C9_HistoryIgnored ==
    \A a, b \in RequestIds :
        (Done(a) /\ Done(b) /\ requests[a].message = requests[b].message)
            => requests[a].reply = requests[b].reply

\* the same message answered once without history and once with a record
C9_Witness ==
    \E a, b \in RequestIds :
        /\ Done(a) /\ Done(b)
        /\ requests[a].message = requests[b].message
        /\ ~requests[a].history.given
        /\ Len(requests[b].history.items) > 0
        /\ requests[a].reply = requests[b].reply

EnvLabel(ok) == IF ok THEN "U+2705 Set" ELSE "U+274C Not Set"

\* C10 as stated: /test never raises, and the returned database_url and
\* database_name say whether DATABASE_URL and DATABASE_NAME are set.
C10_AsStated ==
    /\ pc # "raised"
    /\ pc = "returned" =>
          /\ response.database_url = EnvLabel(env.DATABASE_URL.set)
          /\ response.database_name = EnvLabel(env.DATABASE_NAME.set)

\* C10 amended: for every outcome of the probe /test returns without
\* raising, and the returned database_url and database_name say only whether
\* DATABASE_URL and DATABASE_NAME are set to a non-empty value; what the
\* probe wrote to the two fields is not in the returned response.
C10_EnvOnly ==
    /\ pc # "raised"
    /\ pc = "returned" =>
          /\ response.database_url
                = EnvLabel(env.DATABASE_URL.set /\ env.DATABASE_URL.value # "")
          /\ response.database_name
                = EnvLabel(env.DATABASE_NAME.set /\ env.DATABASE_NAME.value # "")
          /\ response.database_url # "U+2705 Configured"
          /\ response.database_name \notin {DbName, "U+2705 Connected"}

\* the probe found a named db whose listing raised, and the response was
\* returned with the environment's labels
C10_Witness ==
    /\ pc = "returned"
    /\ database.db = "object"
    /\ database.has_name
    /\ database.listing # "ok"
    /\ response.connection_status = "Connected"
    /\ response.database_url = "U+274C Not Set"
    /\ response.database_name = "U+2705 Set"

====
